---- MODULE Spec2Model ----
(***************************************************************************)
(* Model of the vision-processing microservice.                            *)
(*                                                                         *)
(*   app.py        load_model() at import time, then the Flask routes      *)
(*                 /, /detect, /health, /api/status                        *)
(*   app_cloud.py  the same routes with a static mock detection list       *)
(*                                                                         *)
(* Confidences are integers in thousandths (0.876 is 876); the confidence  *)
(* a backend reports is in ten-thousandths, so that round(conf, 3) is a    *)
(* real conversion.  An uploaded image is a uniform gray picture given by  *)
(* its size, its gray level and its PIL mode.                              *)
(***************************************************************************)
EXTENDS Integers, Sequences, FiniteSets, TLC

VARIABLES
    pc,            \* app.py: which statement of load_model runs next, or "serving"
    model,         \* app.py global `model`
    REAL_AI,       \* app.py global `REAL_AI`
    model_loaded,  \* app.py global `model_loaded` (the value load_model returned)
    loadLog,       \* the lines load_model printed, in order
    req,           \* the request the last handler was given
    steps,         \* the stages the last handler went through
    resp,          \* the response the last handler returned
    lastFellBack   \* history: the last delivered app.py /detect fell back to the heuristic

vars == <<pc, model, REAL_AI, model_loaded, loadLog, req, steps, resp, lastFellBack>>

None == "None"

\* Largest number of boxes a backend reports for one image.
MaxBoxes == 7

\* detections[:6]
MaxDetections == 6

\* conf > 0.3, in ten-thousandths
ConfThreshold == 3000

(***************************************************************************)
(* Python helpers                                                          *)
(***************************************************************************)

\* round(conf, 3) of a confidence given in ten-thousandths: the nearest
\* thousandth (the inputs used below are never exactly half way).
Round3(c) == (c + 5) \div 10

\* lst[:n]
Slice(lst, n) == SubSeq(lst, 1, IF Len(lst) < n THEN Len(lst) ELSE n)

\* random.randint(a, b): every integer of a..b
randint(a, b) == a..b

\* The random generator is a stream of draws; a call finds it in some phase
\* and takes consecutive draws from it.
StreamPhases == {0, 1}

\* round(random.uniform(a, b), 3), in thousandths, for the i-th confidence
\* drawn by a call that found the stream in phase u: the draws are sampled
\* at the two ends of the band, alternately.
uniform(a, b, u, i) == IF (u + i) % 2 = 0 THEN a ELSE b

Injective(s) == \A i, j \in 1..Len(s) : i # j => s[i] # s[j]

random_sample_with_replacement(population, k) ==
    { [i \in 1..k |-> population[f[i]]] : f \in [1..k -> 1..Len(population)] }

\* random.sample(population, k): k elements at distinct positions, any order
random_sample(population, k) ==
    { [i \in 1..k |-> population[f[i]]] :
        f \in { g \in [1..k -> 1..Len(population)] : Injective(g) } }

(***************************************************************************)
(* Uploaded images                                                         *)
(***************************************************************************)

Image(w, h, g, m) == [width |-> w, height |-> h, gray |-> g, mode |-> m]

\* The bytes are no image at all: Image.open raises.
Undecodable == [width |-> 0, height |-> 0, gray |-> 0, mode |-> "undecodable"]

NoUpload == [width |-> 0, height |-> 0, gray |-> 0, mode |-> "none"]

Uploads ==
    { Image(2000, 1000, 140, "RGB"),    \* wide and bright
      Image(2000, 1000, 120, "RGB"),    \* wide, brightness exactly 120
      Image(1920, 1080, 140, "RGB"),    \* 16:9, bright
      Image(400, 600, 140, "RGB"),      \* portrait
      Image(400, 600, 140, "CMYK"),     \* portrait, a mode PNG cannot hold
      Undecodable }

\* Image.open(file.stream) succeeds
Decodable(img) == img.mode \notin {"undecodable", "none"}

\* image.save(buffer, format='PNG') succeeds: PNG has no CMYK mode
CanSavePNG(img) == img.mode = "RGB"

\* aspect_ratio = width / height, compared with n/10
AspectAbove(img, tenths) == img.width * 10 > tenths * img.height
AspectBelow(img, tenths) == img.width * 10 < tenths * img.height

\* avg_brightness = sum(pixels) / len(pixels), compared with a level
BrightnessAbove(img, level) ==
    LET n == img.width * img.height
    IN  img.gray * n > level * n

IsHighwayScene(img) == AspectAbove(img, 18) /\ BrightnessAbove(img, 120)

IsPortraitScene(img) == ~IsHighwayScene(img) /\ AspectBelow(img, 12)

(***************************************************************************)
(* smart_mock_detection: the heuristic scene classifier of app.py          *)
(***************************************************************************)

Detection(name, confidence) == [name |-> name, confidence |-> confidence]

HighwayCarCountsFromOne == randint(1, 8)

\* num_cars = random.randint(3, 8)
HighwayCarCounts == randint(3, 8)

\* random.choice(['chair', 'table', 'laptop', 'phone'])
IndoorObjects == <<"chair", "table", "laptop", "phone">>

common_objects == <<"person", "car", "bicycle", "dog", "cat", "bird">>

\* Lines 163-173, the highway branch: the lists it can build, before
\* truncation.  random.random() > 0.7 decides the truck.
HighwayDetections ==
    { [i \in 1..n |-> Detection("car", uniform(750, 950, u, i))]
        \o (IF truck THEN <<Detection("truck", uniform(650, 850, u, n + 1))>>
                     ELSE <<>>) :
        n \in HighwayCarCounts, truck \in BOOLEAN, u \in StreamPhases }

\* Lines 177-185, the portrait/indoor branch.  random.random() > 0.5 decides
\* the second object.
PortraitDetections ==
    { <<Detection("person", uniform(800, 950, u, 1))>> : u \in StreamPhases }
    \cup
    { <<Detection("person", uniform(800, 950, u, 1)),
        Detection(IndoorObjects[k], uniform(600, 850, u, 2))>> :
        k \in 1..Len(IndoorObjects), u \in StreamPhases }

\* Lines 189-197, the general outdoor branch.
OutdoorDetections ==
    UNION { { [i \in 1..n |-> Detection(sel[i], uniform(650, 900, u, i))] :
                sel \in random_sample(common_objects, n), u \in StreamPhases } :
            n \in randint(2, 4) }

\* Every list smart_mock_detection(image) can return.
smart_mock_detection(img) ==
    LET built == IF IsHighwayScene(img) THEN HighwayDetections
                 ELSE IF AspectBelow(img, 12) THEN PortraitDetections
                 ELSE OutdoorDetections
    IN  { Slice(d, MaxDetections) : d \in built }

(***************************************************************************)
(* The real backend, as /detect sees it                                    *)
(***************************************************************************)

\* One reported box: its label (model.names[int(cls)], or row['name']) and
\* its confidence in ten-thousandths.
Box(name, conf) == [name |-> name, conf |-> conf]

\* The boxes a backend reports: a confident one (0.8756), one just above the
\* threshold (0.3004) and one exactly on it (0.3).
Boxes == { Box("car", 8756), Box("person", 3004), Box("person", ConfThreshold) }

\* The box lists a backend call may report.
BoxLists == UNION { [1..n -> Boxes] : n \in 0..MaxBoxes }

\* The loops of lines 76-85 and 90-95: keep the boxes with conf > 0.3, in
\* order, with the confidence rounded to 3 places.  Nothing truncates the list.
RECURSIVE Normalise(_)
Normalise(boxes) ==
    IF boxes = <<>> THEN <<>>
    ELSE (IF Head(boxes).conf > ConfThreshold
            THEN <<Detection(Head(boxes).name, Round3(Head(boxes).conf))>>
            ELSE <<>>)
         \o Normalise(Tail(boxes))

\* What one run of the real-detection block can do: the call raises; the
\* normalisation raises after some boxes were appended; or both complete and
\* drawing the annotated image works (plot) or raises.
BackendOutcomes ==
    { [kind |-> "invoke_raises", boxes |-> <<>>, plot |-> FALSE],
      [kind |-> "normalise_raises", boxes |-> <<Box("car", 8756)>>, plot |-> FALSE] }
    \cup
    { [kind |-> "ok", boxes |-> b, plot |-> p] : b \in BoxLists, p \in BOOLEAN }

(***************************************************************************)
(* Responses                                                               *)
(***************************************************************************)

NoResponse == [variant |-> "none", route |-> "none", status |-> 0, body |-> [none |-> TRUE]]

Response(variant, route, status, body) ==
    [variant |-> variant, route |-> route, status |-> status, body |-> body]

\* jsonify({'error': ...}), code
ErrorBody(text) == [error |-> text]

RealMessage == "Real AI Detection - YOLO"

FallbackMessageOfRealPath == RealMessage

FallbackMessage == "Smart Detection (AI Fallback)"

DemoMessage == "Smart Analysis - Demo Mode"

\* The text of the exception the backend raised: line 118 prints it, and the
\* handler does nothing else with it.
BackendErrorText == "backend inference failed"

OpenErrorText == "cannot identify image file"

SaveErrorText == "cannot write mode CMYK as PNG"

\* jsonify({...}) of lines 134-142
SuccessBody(detections, img_str, message) ==
    [success      |-> TRUE,
     detections   |-> detections,
     image        |-> img_str,
     count        |-> Len(detections),
     message      |-> message,
     real_ai      |-> REAL_AI,
     model_status |-> IF model # None THEN "loaded" ELSE "mock"]

UploadValidationWithoutFilenameCheck(r) ==
    IF ~r.has_image THEN Response("app", "/detect", 400, ErrorBody("No image uploaded"))
    ELSE NoResponse

\* Lines 58-63 (app.py) and 18-23 (app_cloud.py): the 400 answers, or
\* NoResponse when the upload passes.
UploadValidation(r) ==
    IF ~r.has_image THEN Response("app", "/detect", 400, ErrorBody("No image uploaded"))
    ELSE IF r.filename = "" THEN Response("app", "/detect", 400, ErrorBody("No image selected"))
    ELSE NoResponse

ServerErrorAsOk(text) == Response("app", "/detect", 200, ErrorBody(text))

\* except Exception as e: return jsonify({'error': str(e)}), 500
ServerError(text) == Response("app", "/detect", 500, ErrorBody(text))

FallbackKeepingCollected(collected, heuristic) == collected \o heuristic

\* Line 120, detections = smart_mock_detection(image): what the real block
\* had appended is dropped.
FallbackDetections(collected, heuristic) == heuristic

\* The end of a heuristic path: the original image is saved as PNG (which
\* raises for a mode PNG cannot hold, sending the handler to line 145), then
\* the payload is built.
HeuristicReply(img, detections, message, done) ==
    IF CanSavePNG(img)
    THEN [resp  |-> Response("app", "/detect", 200,
                             SuccessBody(detections, "png:original", message)),
          steps |-> done \cup {"heuristic", "save_original"}]
    ELSE [resp  |-> ServerError(SaveErrorText),
          steps |-> done \cup {"heuristic", "save_original", "save_raised"}]

\* Lines 117-124: the except branch of the real-detection block.
Fallback(img, collected, done) ==
    { HeuristicReply(img, FallbackDetections(collected, d), FallbackMessage,
                     done \cup {"backend_raised"}) :
        d \in smart_mock_detection(img) }

\* Lines 126-132: no real engine.
MockPath(img) ==
    { HeuristicReply(img, d, DemoMessage, {"open"}) : d \in smart_mock_detection(img) }

\* Lines 97-115: the real block completed; the annotated image is drawn, or
\* the original is saved when drawing raises.
RealReply(o) ==
    [resp  |-> Response("app", "/detect", 200,
                 SuccessBody(Normalise(o.boxes),
                             IF o.plot THEN "png:annotated" ELSE "png:original",
                             RealMessage)),
     steps |-> IF o.plot
               THEN {"open", "infer", "normalise", "annotate"}
               ELSE {"open", "infer", "normalise", "annotate", "annotate_raised",
                     "save_original"}]

\* Lines 69-124: the real engine is called.  The block raises when the call
\* raises, when the normalisation raises, or when drawing raises and the
\* save of line 112, inside the bare except, raises too.
RealPath(img) ==
    LET completed == { o \in BackendOutcomes : o.kind = "ok" }
        saved     == { o \in completed : o.plot \/ CanSavePNG(img) }
    IN  { RealReply(o) : o \in saved }
        \cup
        UNION { Fallback(img, <<>>, {"open", "infer"}) :
                  o \in { x \in BackendOutcomes : x.kind = "invoke_raises" } }
        \cup
        UNION { Fallback(img, Normalise(o.boxes), {"open", "infer", "normalise"}) :
                  o \in { x \in BackendOutcomes : x.kind = "normalise_raises" } }
        \cup
        UNION { Fallback(img, Normalise(o.boxes),
                         {"open", "infer", "normalise", "annotate", "annotate_raised",
                          "save_original"}) :
                  o \in completed \ saved }

\* Line 69: if REAL_AI and model
EngineLoaded == REAL_AI /\ model # None

\* app.py detect_objects: every (response, stages) the handler can end with.
detect_objects(r) ==
    IF UploadValidation(r) # NoResponse
    THEN { [resp |-> UploadValidation(r), steps |-> {}] }
    ELSE IF ~Decodable(r.upload)
    THEN { [resp |-> ServerError(OpenErrorText), steps |-> {"open", "open_raised"}] }
    ELSE IF EngineLoaded
    THEN RealPath(r.upload)
    ELSE MockPath(r.upload)

\* app_cloud.py line 35-39
mock_detections ==
    << [name |-> "person",  confidence |-> 870, bbox |-> <<100, 50, 300, 400>>],
       [name |-> "car",     confidence |-> 740, bbox |-> <<50, 200, 250, 350>>],
       [name |-> "bicycle", confidence |-> 680, bbox |-> <<300, 150, 450, 300>>] >>

CloudOf(response) == [response EXCEPT !.variant = "app_cloud"]

\* app_cloud.py detect_objects
cloud_detect_objects(r) ==
    IF UploadValidation(r) # NoResponse
    THEN [resp |-> CloudOf(UploadValidation(r)), steps |-> {}]
    ELSE IF ~Decodable(r.upload)
    THEN [resp |-> CloudOf(ServerError(OpenErrorText)), steps |-> {"open", "open_raised"}]
    ELSE IF ~CanSavePNG(r.upload)
    THEN [resp |-> CloudOf(ServerError(SaveErrorText)),
          steps |-> {"open", "save_original", "save_raised"}]
    ELSE [resp  |-> Response("app_cloud", "/detect", 200,
                      [success    |-> TRUE,
                       detections |-> mock_detections,
                       image      |-> "png:original",
                       count      |-> Len(mock_detections),
                       message    |-> "Cloud Vision Processing - Demo Mode"]),
          steps |-> {"open", "save_original"}]

(***************************************************************************)
(* Requests                                                                *)
(***************************************************************************)

NoRequest == [has_image |-> FALSE, filename |-> "", upload |-> NoUpload, route |-> "none"]

\* POST /detect: without the `image` field, with an empty filename, or with a file.
DetectRequests ==
    { [has_image |-> FALSE, filename |-> "", upload |-> NoUpload, route |-> "/detect"] }
    \cup
    { [has_image |-> TRUE, filename |-> "", upload |-> u, route |-> "/detect"] :
        u \in {NoUpload, Image(400, 600, 140, "RGB")} }
    \cup
    { [has_image |-> TRUE, filename |-> "photo.jpg", upload |-> u, route |-> "/detect"] :
        u \in Uploads }

Get(route) == [NoRequest EXCEPT !.route = route]

(***************************************************************************)
(* Startup: load_model(), one action per candidate                         *)
(***************************************************************************)

Init ==
    /\ pc = "try_ultralytics"
    /\ model = None
    /\ REAL_AI = FALSE
    /\ model_loaded = FALSE
    /\ loadLog = <<>>
    /\ req = NoRequest
    /\ steps = {}
    /\ resp = NoResponse
    /\ lastFellBack = FALSE

RequestIdle == UNCHANGED <<req, steps, resp, lastFellBack>>

\* No exchange is in flight: the last response has been delivered.
Idle == resp = NoResponse

TryUltralyticsFallingThrough ==
    /\ pc = "try_ultralytics"
    /\ \E ok \in BOOLEAN :
         IF ok
         THEN /\ model' = "ultralytics"
              /\ REAL_AI' = TRUE
              /\ loadLog' = Append(loadLog, "Ultralytics YOLO loaded successfully!")
              /\ pc' = "try_torch_hub"
              /\ UNCHANGED model_loaded
         ELSE /\ loadLog' = Append(loadLog, "Ultralytics failed")
              /\ pc' = "try_torch_hub"
              /\ UNCHANGED <<model, REAL_AI, model_loaded>>
    /\ RequestIdle

\* Lines 19-27: method 1, the packaged ultralytics model.
TryUltralytics ==
    /\ pc = "try_ultralytics"
    /\ \E ok \in BOOLEAN :
         IF ok
         THEN /\ model' = "ultralytics"
              /\ REAL_AI' = TRUE
              /\ loadLog' = Append(loadLog, "Ultralytics YOLO loaded successfully!")
              /\ model_loaded' = TRUE
              /\ pc' = "serving"
         ELSE /\ loadLog' = Append(loadLog, "Ultralytics failed")
              /\ pc' = "try_torch_hub"
              /\ UNCHANGED <<model, REAL_AI, model_loaded>>
    /\ RequestIdle

\* Lines 29-37: method 2, the torch-hub model.
TryTorchHub ==
    /\ pc = "try_torch_hub"
    /\ \E ok \in BOOLEAN :
         IF ok
         THEN /\ model' = "torch_hub"
              /\ REAL_AI' = TRUE
              /\ loadLog' = Append(loadLog, "Torch Hub YOLO loaded successfully!")
              /\ model_loaded' = TRUE
              /\ pc' = "serving"
         ELSE /\ loadLog' = Append(loadLog, "Torch Hub failed")
              /\ pc' = "try_api_probe"
              /\ UNCHANGED <<model, REAL_AI, model_loaded>>
    /\ RequestIdle

TryApiProbeSettingRealAI ==
    /\ pc = "try_api_probe"
    /\ \E ok \in BOOLEAN :
         /\ loadLog' = Append(loadLog, IF ok THEN "External API available!"
                                             ELSE "All methods failed, using smart mock")
         /\ model_loaded' = ok
         /\ REAL_AI' = ok
    /\ pc' = "serving"
    /\ UNCHANGED model
    /\ RequestIdle

\* Lines 39-47: method 3, requests.get on the external API; only the return
\* value depends on it.
TryApiProbe ==
    /\ pc = "try_api_probe"
    /\ \E ok \in BOOLEAN :
         /\ loadLog' = Append(loadLog, IF ok THEN "External API available!"
                                             ELSE "All methods failed, using smart mock")
         /\ model_loaded' = ok
    /\ pc' = "serving"
    /\ UNCHANGED <<model, REAL_AI>>
    /\ RequestIdle

(***************************************************************************)
(* Serving                                                                 *)
(***************************************************************************)

GlobalsResetOnBackendError(done) ==
    /\ REAL_AI' = IF "backend_raised" \in done THEN FALSE ELSE REAL_AI
    /\ model' = IF "backend_raised" \in done THEN None ELSE model
    /\ UNCHANGED <<pc, model_loaded, loadLog>>

\* No handler has a `global` statement: a request leaves the process state
\* alone, whatever it went through.
GlobalsAfterRequest(done) == UNCHANGED <<pc, model, REAL_AI, model_loaded, loadLog>>

\* app.py GET /
Index ==
    /\ pc = "serving"
    /\ Idle
    /\ req' = Get("/")
    /\ steps' = {}
    /\ resp' = Response("app", "/", 200, [template |-> "index.html"])
    /\ GlobalsAfterRequest({})
    /\ UNCHANGED lastFellBack

\* app.py POST /detect
Detect ==
    /\ pc = "serving"
    /\ Idle
    /\ \E r \in DetectRequests : \E out \in detect_objects(r) :
         /\ req' = r
         /\ steps' = out.steps
         /\ resp' = out.resp
         /\ GlobalsAfterRequest(out.steps)
    /\ UNCHANGED lastFellBack

\* app.py GET /health
Health ==
    /\ pc = "serving"
    /\ Idle
    /\ req' = Get("/health")
    /\ steps' = {}
    /\ resp' = Response("app", "/health", 200,
                 [status       |-> "healthy",
                  service      |-> "vision-processing-microservice",
                  real_ai      |-> REAL_AI,
                  model_loaded |-> model # None,
                  version      |-> "2.0"])
    /\ GlobalsAfterRequest({})
    /\ UNCHANGED lastFellBack

\* app.py GET /api/status
ApiStatus ==
    /\ pc = "serving"
    /\ Idle
    /\ req' = Get("/api/status")
    /\ steps' = {}
    /\ resp' = Response("app", "/api/status", 200,
                 [microservice |-> "vision-processing",
                  ai_engine    |-> IF REAL_AI THEN "YOLO" ELSE "Smart Mock"])
    /\ GlobalsAfterRequest({})
    /\ UNCHANGED lastFellBack

\* app_cloud.py POST /detect: the cloud variant is its own process and has
\* no globals; it can be asked at any time.
CloudDetect ==
    /\ Idle
    /\ \E r \in DetectRequests :
         /\ req' = r
         /\ steps' = cloud_detect_objects(r).steps
         /\ resp' = cloud_detect_objects(r).resp
    /\ GlobalsAfterRequest({})
    /\ UNCHANGED lastFellBack

\* app_cloud.py GET /health
CloudHealth ==
    /\ Idle
    /\ req' = Get("/health")
    /\ steps' = {}
    /\ resp' = Response("app_cloud", "/health", 200,
                 [status |-> "healthy", service |-> "vision-processing-microservice",
                  version |-> "1.0.0"])
    /\ GlobalsAfterRequest({})
    /\ UNCHANGED lastFellBack

\* The response is sent and the request-local objects (upload, pixel buffer,
\* detection list) are dropped; the process globals stay.
Deliver ==
    /\ ~Idle
    /\ req' = NoRequest
    /\ steps' = {}
    /\ resp' = NoResponse
    /\ lastFellBack' = IF resp.variant = "app" /\ resp.route = "/detect"
                        THEN "backend_raised" \in steps
                        ELSE lastFellBack
    /\ UNCHANGED <<pc, model, REAL_AI, model_loaded, loadLog>>

Next ==
    \/ TryUltralytics
    \/ TryTorchHub
    \/ TryApiProbe
    \/ Index
    \/ Detect
    \/ Health
    \/ ApiStatus
    \/ CloudDetect
    \/ CloudHealth
    \/ Deliver

Spec == Init /\ [][Next]_vars

(***************************************************************************)
(* Properties                                                              *)
(***************************************************************************)

\* The last exchange was a POST /detect answered by the given variant.
DetectAnswered(variant) == resp.route = "/detect" /\ resp.variant = variant

\* ... and it carries a success payload.
DetectSucceeded(variant) ==
    DetectAnswered(variant) /\ resp.status = 200 /\ "success" \in DOMAIN resp.body

\* The payload's detections came from smart_mock_detection.
FromHeuristic == DetectSucceeded("app") /\ "heuristic" \in steps

CountLabel(d, label) == Cardinality({ i \in 1..Len(d) : d[i].name = label })

Labels(d) == { d[i].name : i \in 1..Len(d) }

NoRepeatedLabel(d) == \A i, j \in 1..Len(d) : i # j => d[i].name # d[j].name

\* C1: every successful POST /detect response, of either variant and on
\* every path, carries at most 6 detections.
C1_AtMostSixDetections ==
    (DetectSucceeded("app") \/ DetectSucceeded("app_cloud"))
        => Len(resp.body.detections) <= 6

\* C2 as stated: the list smart_mock_detection returns never holds two
\* detections with the same label, in any of the three scene branches.
C2_NoRepeatedLabelAnywhere ==
    FromHeuristic => NoRepeatedLabel(resp.body.detections)

\* C2 as amended: outside the highway branch (portrait/indoor and general
\* outdoor) no label is repeated; in the highway branch "car" is the only
\* label that is repeated, and it always is.
C2_RepeatedLabelOnlyCarOnHighway ==
    FromHeuristic =>
        LET d == resp.body.detections
        IN  IF IsHighwayScene(req.upload)
            THEN /\ CountLabel(d, "car") >= 2
                 /\ \A l \in Labels(d) \ {"car"} : CountLabel(d, l) = 1
            ELSE NoRepeatedLabel(d)

\* A general outdoor scene answered with four detections.
C2_Witness ==
    /\ FromHeuristic
    /\ ~IsHighwayScene(req.upload)
    /\ ~IsPortraitScene(req.upload)
    /\ Len(resp.body.detections) = 4

\* C3 as stated: for a wide (aspect ratio > 1.8), bright image the heuristic
\* output holds a "road" detection and at least 2 "car" detections.
C3_HighwayHasRoadAndCars ==
    (FromHeuristic /\ AspectAbove(req.upload, 18) /\ BrightnessAbove(req.upload, 120))
        => /\ "road" \in Labels(resp.body.detections)
           /\ CountLabel(resp.body.detections, "car") >= 2

\* C3 as amended: for a wide (aspect ratio > 1.8) image of average brightness
\* above 120 the heuristic output holds at least 3 "car" detections (so at
\* least 2), at most 6 entries, and never a "road" detection.
C3_HighwayHasCarsAndNoRoad ==
    (FromHeuristic /\ AspectAbove(req.upload, 18) /\ BrightnessAbove(req.upload, 120))
        => /\ CountLabel(resp.body.detections, "car") >= 3
           /\ Len(resp.body.detections) <= 6
           /\ "road" \notin Labels(resp.body.detections)

\* A highway answer that was truncated: six cars, the truck cut off or absent.
C3_Witness ==
    /\ FromHeuristic
    /\ IsHighwayScene(req.upload)
    /\ CountLabel(resp.body.detections, "car") = 6

\* C4: a POST /detect without the `image` field, or with an empty filename,
\* is answered 400 with an `error` key by both variants, in every backend
\* state, before the image is opened, the engine called or the heuristic run.
C4_InvalidUploadRejected ==
    (resp.route = "/detect" /\ (~req.has_image \/ req.filename = ""))
        => /\ resp.status = 400
           /\ DOMAIN resp.body = {"error"}
           /\ steps = {}

\* An empty filename, rejected by app.py while a real engine is loaded.
C4_Witness ==
    /\ DetectAnswered("app")
    /\ EngineLoaded
    /\ req.has_image
    /\ req.filename = ""
    /\ resp.status = 400

\* C5 as stated: when the real-detection block raises, the request is still
\* answered with a success payload holding exactly a heuristic list.
C5_BackendFailureAlwaysSucceeds ==
    (DetectAnswered("app") /\ "backend_raised" \in steps)
        => /\ DetectSucceeded("app")
           /\ resp.body.detections \in smart_mock_detection(req.upload)

\* C5 as amended: when the real-detection block raises and the uploaded
\* image can be saved as PNG, the request is answered with a success payload
\* whose detections are exactly a heuristic list (what the real block had
\* collected is dropped); when the image cannot be saved as PNG the request
\* is answered 500 with the save error.  In neither case does the response
\* carry the backend error, the engine stays loaded, and the request after
\* a fallback calls the real engine again.
C5_FallbackForOneRequest ==
    /\ (DetectAnswered("app") /\ "backend_raised" \in steps)
         => /\ IF CanSavePNG(req.upload)
               THEN /\ DetectSucceeded("app")
                    /\ resp.body.detections \in smart_mock_detection(req.upload)
                    /\ resp.body.message = "Smart Detection (AI Fallback)"
               ELSE /\ resp.status = 500
                    /\ resp.body = [error |-> "cannot write mode CMYK as PNG"]
            /\ "error" \in DOMAIN resp.body => resp.body.error # BackendErrorText
            /\ EngineLoaded
    /\ (lastFellBack /\ DetectAnswered("app") /\ "open" \in steps /\ "open_raised" \notin steps)
         => "infer" \in steps

\* The request after a fallback is answered by the real engine.
C5_Witness ==
    /\ lastFellBack
    /\ DetectSucceeded("app")
    /\ resp.body.message = "Real AI Detection - YOLO"
    /\ Len(resp.body.detections) > 0

\* The candidate (1, 2 or 3) a line of the load log is about, and whether the
\* line reports that the candidate succeeded.
CandidateOf(line) ==
    CASE line \in {"Ultralytics YOLO loaded successfully!", "Ultralytics failed"} -> 1
      [] line \in {"Torch Hub YOLO loaded successfully!", "Torch Hub failed"} -> 2
      [] OTHER -> 3

Succeeded(line) == line \in {"Ultralytics YOLO loaded successfully!", "Torch Hub YOLO loaded successfully!", "External API available!"}

\* C6: load_model tries the candidates in the order ultralytics, torch hub,
\* API probe; a candidate is tried only after every earlier one failed and
\* none after one succeeded; whatever fails, load_model returns, and then
\* /detect can be served.
C6_CandidatesInOrderUntilSuccess ==
    /\ \A i \in 1..Len(loadLog) : CandidateOf(loadLog[i]) = i
    /\ \A i \in 1..Len(loadLog) : i < Len(loadLog) => ~Succeeded(loadLog[i])
    /\ Len(loadLog) <= 3
    /\ IF Len(loadLog) > 0 /\ (Succeeded(loadLog[Len(loadLog)]) \/ Len(loadLog) = 3)
       THEN pc = "serving"
       ELSE /\ pc = <<"try_ultralytics", "try_torch_hub", "try_api_probe">>[Len(loadLog) + 1]
            /\ ENABLED (TryUltralytics \/ TryTorchHub \/ TryApiProbe)
    /\ (pc = "serving" /\ Idle) => ENABLED Detect

\* Every candidate failed, and /detect was then served by the heuristic.
C6_Witness ==
    /\ loadLog = <<"Ultralytics failed", "Torch Hub failed", "All methods failed, using smart mock">>
    /\ FromHeuristic
    /\ resp.body.message = "Smart Analysis - Demo Mode"

\* C7: once load_model has returned, no request changes model or REAL_AI,
\* and the process keeps serving.
C7_GlobalsWrittenOnlyAtStartup ==
    [][pc = "serving" => /\ model' = model
                         /\ REAL_AI' = REAL_AI
                         /\ pc' = "serving"]_vars

\* A request answered 500 right after a request whose backend call raised,
\* with the engine still loaded.
C7_Witness ==
    /\ lastFellBack
    /\ DetectAnswered("app")
    /\ resp.status = 500
    /\ EngineLoaded

\* C8: a POST /detect that passes the upload validation but whose bytes are
\* no image is answered 500 with an `error` key by both variants, in every
\* backend state; it never gets a success payload, nothing past Image.open
\* runs, and the service goes on serving.
C8_UndecodableUploadIs500 ==
    (resp.route = "/detect" /\ req.has_image /\ req.filename # "" /\ ~Decodable(req.upload))
        => /\ resp.status = 500
           /\ DOMAIN resp.body = {"error"}
           /\ steps = {"open", "open_raised"}
           /\ resp.variant = "app" => pc = "serving"
           /\ ENABLED Deliver

\* Bytes that are no image, answered 500 by app.py with a real engine loaded.
C8_Witness ==
    /\ DetectAnswered("app")
    /\ EngineLoaded
    /\ req.upload = Undecodable
    /\ req.filename # ""
    /\ resp.status = 500

\* C9: in app.py the message of a successful /detect response names the path
\* that built the detections (real engine completed; real engine raised and
\* the heuristic answered; no real engine), and count is the length of the
\* detections list.
C9_MessageNamesThePath ==
    DetectSucceeded("app") =>
        /\ resp.body.message = "Real AI Detection - YOLO"
             <=> (EngineLoaded /\ "infer" \in steps /\ "backend_raised" \notin steps
                    /\ "heuristic" \notin steps)
        /\ resp.body.message = "Smart Detection (AI Fallback)"
             <=> (EngineLoaded /\ "infer" \in steps /\ "backend_raised" \in steps
                    /\ "heuristic" \in steps)
        /\ resp.body.message = "Smart Analysis - Demo Mode"
             <=> (~EngineLoaded /\ "infer" \notin steps /\ "heuristic" \in steps)
        /\ resp.body.count = Len(resp.body.detections)

\* A fallback answer with a non-empty list.
C9_Witness ==
    /\ DetectSucceeded("app")
    /\ resp.body.message = "Smart Detection (AI Fallback)"
    /\ resp.body.count = 2

\* C10: after load_model has returned, REAL_AI is true exactly when model is
\* not None; when only the API probe succeeded load_model returned True but
\* REAL_AI is False and model is None, /detect takes the heuristic path, and
\* the real_ai, model_status and model_loaded fields of the answers agree.
C10_RealAiIffModel ==
    pc = "serving" =>
        /\ REAL_AI <=> model # None
        /\ (Len(loadLog) = 3 /\ loadLog[3] = "External API available!")
             => /\ model_loaded
                /\ ~REAL_AI
                /\ model = None
                /\ DetectSucceeded("app") => /\ "heuristic" \in steps
                                             /\ "infer" \notin steps
        /\ DetectSucceeded("app")
             => /\ resp.body.real_ai <=> resp.body.model_status = "loaded"
                /\ resp.body.real_ai <=> REAL_AI
        /\ (resp.variant = "app" /\ resp.route = "/health")
             => /\ resp.body.real_ai <=> resp.body.model_loaded
                /\ resp.body.real_ai <=> REAL_AI

\* Only the API probe succeeded, and /detect was answered by the heuristic.
C10_Witness ==
    /\ loadLog = <<"Ultralytics failed", "Torch Hub failed", "External API available!">>
    /\ model_loaded
    /\ FromHeuristic
    /\ ~resp.body.real_ai

====
